---- MODULE Spec2Model ----
(***************************************************************************)
(* Stations service (src/src/index.js, src/src/database.js).               *)
(*                                                                         *)
(* index.js holds two programs one after the other: lines 1-201 (pooled    *)
(* connections, authorizeAdmin, numeric type_id checked against            *)
(* VALID_TYPE_IDS) and lines 202-424 (one connection per request, no       *)
(* authorization middleware, free-text type).  `variant` says which of     *)
(* the two is serving; it is fixed at start-up.                            *)
(*                                                                         *)
(* A request handler is an async function with two suspension points       *)
(* (await on the connection, await on connection.execute); the second      *)
(* program has a third one (await connection.end()).  Between suspension   *)
(* points a handler runs without interleaving.                             *)
(***************************************************************************)
EXTENDS Integers, Sequences, FiniteSets, Bags, TLC

VARIABLES
    variant,     \* 1: index.js:1-201, 2: index.js:202-424
    rows,        \* table `stations`: rows[i] is the row with id = i
    marks,       \* observer: per row, the last statement that wrote it
    inFlight,    \* bag of suspended request handlers
    checkedOut,  \* connections acquired and not yet released / ended
    last,        \* observer: the request answered by the step just taken, if any
    race         \* observer: the answers to the soft deletes of one watched station

vars == <<variant, rows, marks, inFlight, checkedOut, last, race>>

-----------------------------------------------------------------------------
(* Bounds *)
MaxRows == 2
MaxInFlight == 2

(* Program constants *)
connectionLimit == 10
VALID_TYPE_IDS == <<1, 2, 3>>
RecognizedTypeNames == {"origen", "destino", "intermedia"}

-----------------------------------------------------------------------------
(* JavaScript values of a JSON body *)
Undefined == [t |-> "undefined", n |-> 0, s |-> ""]
Num(k)    == [t |-> "number", n |-> k, s |-> ""]
Str(x)    == [t |-> "string", n |-> 0, s |-> x]
Bool(b)   == [t |-> "boolean", n |-> IF b THEN 1 ELSE 0, s |-> ""]

\* ToBoolean, as used by `!x`
Truthy(v) ==
    CASE v.t = "undefined" -> FALSE
      [] v.t = "number"    -> v.n # 0
      [] v.t = "string"    -> v.s # ""
      [] v.t = "boolean"   -> v.n = 1

TypeOf(v) == v.t

\* Array.prototype.includes on an array of numbers (SameValueZero)
Includes(arr, v) == v.t = "number" /\ \E i \in 1..Len(arr) : arr[i] = v.n

-----------------------------------------------------------------------------
(* Request bodies the clients send.  type_id is read by the first program, *)
(* type by the second.                                                     *)
Body(name, location, type_id, type, is_active) ==
    [name |-> name, location |-> location, type_id |-> type_id,
     type |-> type, is_active |-> is_active]

NoBody == Body(Undefined, Undefined, Undefined, Undefined, Undefined)

\* POST bodies: {name, location, type_id, type}
CreateBodies ==
    { Body(Str("A"), Str("X"), Num(1), Str("origen"), Undefined),
      Body(Str("B"), Str("Y"), Num(3), Str("destino"), Undefined),
      Body(Undefined, Str("X"), Num(1), Str("origen"), Undefined),
      Body(Str("A"), Str(""), Num(1), Str("origen"), Undefined),
      Body(Str("A"), Str("X"), Undefined, Undefined, Undefined),
      Body(Str("A"), Str("X"), Num(4), Str("unknown"), Undefined) }

\* PUT bodies: {name, location, type_id, type, is_active}
UpdateBodies ==
    { Body(Str("A"), Str("X"), Num(1), Str("origen"), Bool(TRUE)),
      Body(Str("B"), Str("Y"), Num(3), Str("destino"), Bool(FALSE)),
      Body(Undefined, Str("X"), Num(1), Str("origen"), Bool(TRUE)),
      Body(Str("B"), Str("Y"), Num(3), Str("destino"), Str("true")),
      Body(Str("A"), Str("X"), Num(4), Str("unknown"), Bool(TRUE)) }

Ids == 1..(MaxRows + 1)

-----------------------------------------------------------------------------
(* The statements, as functions of the table *)

\* fault: the INSERT binds location and name in the wrong order
InsertSwapped(rs, name, location, type, is_active) ==
    Append(rs, [id |-> Len(rs) + 1, name |-> location, location |-> name,
                type |-> type, is_active |-> is_active])

\* INSERT INTO stations (name, location, type, is_active) VALUES (?, ?, ?, ?)
Insert(rs, name, location, type, is_active) ==
    Append(rs, [id |-> Len(rs) + 1, name |-> name, location |-> location,
                type |-> type, is_active |-> is_active])

\* result.insertId of the INSERT
InsertId(rs) == Len(rs) + 1

\* fault: the list query without its WHERE clause
SelectAll(rs) == rs

\* SELECT ... FROM stations WHERE is_active = TRUE
SelectActive(rs) == SelectSeq(rs, LAMBDA r : r.is_active)

\* fault: the by-id query without `AND is_active = TRUE`
SelectById(rs, id) == SelectSeq(rs, LAMBDA r : r.id = id)

\* SELECT ... FROM stations WHERE id = ? AND is_active = TRUE
SelectActiveById(rs, id) == SelectSeq(rs, LAMBDA r : r.id = id /\ r.is_active)

\* fault: the UPDATE without its WHERE clause
UpdateMatchesAll(rs, id) == 1..Len(rs)

\* fault: the UPDATE restricted to active rows
UpdateMatchesActive(rs, id) == {i \in 1..Len(rs) : rs[i].id = id /\ rs[i].is_active}

\* UPDATE stations SET name = ?, location = ?, type = ?, is_active = ? WHERE id = ?
\* result.affectedRows counts the rows the WHERE clause matched (the driver
\* connects with FOUND_ROWS), changed or not
UpdateMatches(rs, id) == {i \in 1..Len(rs) : rs[i].id = id}

UpdateById(rs, id, name, location, type, is_active) ==
    [i \in 1..Len(rs) |->
        IF i \in UpdateMatches(rs, id)
        THEN [id |-> rs[i].id, name |-> name, location |-> location,
              type |-> type, is_active |-> is_active]
        ELSE rs[i]]

\* fault: the soft delete without `AND is_active = TRUE`
SoftDeleteMatchesAny(rs, id) == {i \in 1..Len(rs) : rs[i].id = id}

\* UPDATE stations SET is_active = FALSE WHERE id = ? AND is_active = TRUE
SoftDeleteMatches(rs, id) == {i \in 1..Len(rs) : rs[i].id = id /\ rs[i].is_active}

SoftDelete(rs, id) ==
    [i \in 1..Len(rs) |->
        IF i \in SoftDeleteMatches(rs, id)
        THEN [rs[i] EXCEPT !.is_active = FALSE]
        ELSE rs[i]]

-----------------------------------------------------------------------------
(* Handler logic between suspension points *)

AdminOps == {"create", "list", "update", "delete"}

\* authorizeAdmin is mounted on the admin routes of the first program only
Authorized(v, op, auth) == v = 2 \/ op \notin AdminOps \/ auth

\* the type field a program reads from the body
TypeField(v, body) == IF v = 1 THEN body.type_id ELSE body.type

ValidCreate(v, body) ==
    /\ Truthy(body.name)
    /\ Truthy(body.location)
    /\ Truthy(TypeField(v, body))
    /\ (v = 1 => Includes(VALID_TYPE_IDS, body.type_id))

ValidUpdate(v, body) ==
    /\ Truthy(body.name)
    /\ Truthy(body.location)
    /\ Truthy(TypeField(v, body))
    /\ TypeOf(body.is_active) = "boolean"
    /\ (v = 1 => Includes(VALID_TYPE_IDS, body.type_id))

Valid(v, op, body) ==
    CASE op = "create" -> ValidCreate(v, body)
      [] op = "update" -> ValidUpdate(v, body)
      [] OTHER         -> TRUE

\* response bodies
Json(text, id, list, name, location) ==
    [text |-> text, id |-> id, rows |-> list, name |-> name, location |-> location]

Error(text, id) == Json(text, id, <<>>, Undefined, Undefined)

Response(status, json) == [status |-> status, json |-> json]

CreateResponse(rs, body) ==
    Response(201, Json("creada", InsertId(rs), <<>>, body.name, body.location))

ListResponse(rs) ==
    Response(200, Json("", 0, SelectActive(rs), Undefined, Undefined))

GetResponse(rs, id) ==
    LET stations == SelectActiveById(rs, id)
    IN  IF Len(stations) = 0
        THEN Response(404, Error("no encontrada o inactiva", id))
        ELSE Response(200, Json("", 0, <<stations[1]>>, Undefined, Undefined))

UpdateResponse(rs, id) ==
    IF Cardinality(UpdateMatches(rs, id)) = 0
    THEN Response(404, Error("no encontrada", id))
    ELSE Response(200, Error("actualizada", id))

DeleteResponse(rs, id) ==
    IF Cardinality(SoftDeleteMatches(rs, id)) = 0
    THEN Response(404, Error("no encontrada o ya estaba inactiva", id))
    ELSE Response(200, Error("desactivada", id))

\* fault: no finally block
ReleaseNever(conn, n) == n

\* finally { if (connection) connection.release() / await connection.end() }
Release(conn, n) == IF conn THEN n - 1 ELSE n

-----------------------------------------------------------------------------
(* Observers *)

Mark(kind, sub) == [kind |-> kind, sub |-> sub]

Submitted(name, location, type) ==
    [name |-> name, location |-> location, type |-> type]

MarkAfterUpdate(row, is_active) ==
    IF ~row.is_active /\ is_active THEN Mark("revived", <<>>) ELSE Mark("updated", <<>>)

RowAt(rs, id) == IF id \in 1..Len(rs) THEN <<rs[id]>> ELSE <<>>

MarkAt(ms, id) == IF id \in 1..Len(ms) THEN ms[id].kind ELSE ""

Answered(r, resp, executed, rs, newRows) ==
    [op |-> r.op, id |-> r.id, body |-> r.body, auth |-> r.auth,
     status |-> resp.status, json |-> resp.json, executed |-> executed,
     pre |-> RowAt(rs, r.id), premark |-> MarkAt(marks, r.id),
     changed |-> newRows # rs]

NoRequest ==
    [op |-> "", id |-> 0, body |-> NoBody, auth |-> FALSE,
     status |-> 0, json |-> Error("", 0), executed |-> FALSE,
     pre |-> <<>>, premark |-> "", changed |-> FALSE]

\* no station is watched
NoRace == [on |-> FALSE, id |-> 0, before |-> <<>>, done |-> <<>>]

\* the soft deletes of station id are watched from a table rs on
Watch(rs, id) == [on |-> TRUE, id |-> id, before |-> RowAt(rs, id), done |-> <<>>]

\* the answer of handler r, noted if r is a soft delete of the watched station
Raced(r, status, executed) ==
    IF race.on /\ r.op = "delete" /\ r.id = race.id
    THEN [race EXCEPT !.done = Append(@, [status |-> status, executed |-> executed])]
    ELSE race

-----------------------------------------------------------------------------
(* State machine *)

Request(op, id, body, auth) ==
    [op |-> op, id |-> id, body |-> body, auth |-> auth,
     pc |-> "acquire", conn |-> FALSE]

\* a handler of the second program suspended in `await connection.end()`:
\* its response is out, only its connection is left of it
Ending == [op |-> "", id |-> 0, body |-> NoBody, auth |-> FALSE,
           pc |-> "end", conn |-> TRUE]

Replace(bag, old, new) == (bag (-) SetToBag({old})) (+) SetToBag({new})

Remove(bag, old) == bag (-) SetToBag({old})

Holders(bag) ==
    BagCardinality([r \in {x \in BagToSet(bag) : x.conn} |-> bag[r]])

PendingCreates(bag) ==
    BagCardinality([r \in {x \in BagToSet(bag) : x.op = "create"} |-> bag[r]])

Init ==
    /\ variant \in {1, 2}
    /\ rows = <<>>
    /\ marks = <<>>
    /\ inFlight = EmptyBag
    /\ checkedOut = 0
    /\ last = NoRequest
    /\ race = NoRace

\* A handler from its entry to its first await (or to its early return)
Receive(op, id, body, auth) ==
    LET r == Request(op, id, body, auth)
    IN  /\ BagCardinality(inFlight) < MaxInFlight
        /\ op = "create" => Len(rows) + PendingCreates(inFlight) < MaxRows
        /\ IF ~Authorized(variant, op, auth)
           THEN /\ last' = Answered(r, Response(401, Error("acceso denegado", 0)),
                                    FALSE, rows, rows)
                /\ race' = Raced(r, 401, FALSE)
                /\ UNCHANGED inFlight
           ELSE IF ~Valid(variant, op, body)
           THEN /\ last' = Answered(r, Response(400, Error("datos invalidos", 0)),
                                    FALSE, rows, rows)
                /\ race' = Raced(r, 400, FALSE)
                /\ UNCHANGED inFlight
           ELSE /\ inFlight' = inFlight (+) SetToBag({r})
                /\ last' = NoRequest
                /\ UNCHANGED race
        /\ UNCHANGED <<variant, rows, marks, checkedOut>>

\* req.headers.authorization is read by authorizeAdmin and by nothing else: a
\* route that does not mount it behaves the same with and without the header,
\* and gets its requests without it
AuthChoices(op) == IF variant = 1 /\ op \in AdminOps THEN BOOLEAN ELSE {FALSE}

ReceiveCreate ==
    \E body \in CreateBodies, auth \in AuthChoices("create") :
        Receive("create", 0, body, auth)

ReceiveList == \E auth \in AuthChoices("list") : Receive("list", 0, NoBody, auth)

ReceiveGet == \E id \in Ids, auth \in AuthChoices("get") : Receive("get", id, NoBody, auth)

ReceiveUpdate ==
    \E id \in Ids, body \in UpdateBodies, auth \in AuthChoices("update") :
        Receive("update", id, body, auth)

ReceiveDelete ==
    \E id \in Ids, auth \in AuthChoices("delete") : Receive("delete", id, NoBody, auth)

\* pool.getConnection() / mysql.createConnection() resolves
AcquireOk ==
    \E r \in BagToSet(inFlight) :
        /\ r.pc = "acquire"
        /\ variant = 1 => checkedOut < connectionLimit
        /\ checkedOut' = checkedOut + 1
        /\ inFlight' = Replace(inFlight, r, [r EXCEPT !.pc = "execute", !.conn = TRUE])
        /\ last' = NoRequest
        /\ UNCHANGED <<variant, rows, marks, race>>

\* it rejects: catch answers 500, finally finds connection undefined
AcquireFail ==
    \E r \in BagToSet(inFlight) :
        /\ r.pc = "acquire"
        /\ last' = Answered(r, Response(500, Error("error interno", 0)), FALSE, rows, rows)
        /\ race' = Raced(r, 500, FALSE)
        /\ checkedOut' = Release(r.conn, checkedOut)
        /\ inFlight' = Remove(inFlight, r)
        /\ UNCHANGED <<variant, rows, marks>>

\* the rest of a handler once connection.execute() has settled: the response,
\* then the finally block (the second program suspends once more, in end())
Finish(r, resp, executed, newRows) ==
    /\ last' = Answered(r, resp, executed, rows, newRows)
    /\ race' = Raced(r, resp.status, executed)
    /\ IF variant = 1
       THEN /\ checkedOut' = Release(r.conn, checkedOut)
            /\ inFlight' = Remove(inFlight, r)
       ELSE /\ checkedOut' = checkedOut
            /\ inFlight' = Replace(inFlight, r, Ending)

ExecuteCreate ==
    \E r \in BagToSet(inFlight) :
        /\ r.pc = "execute" /\ r.op = "create"
        /\ LET type == TypeField(variant, r.body)
               newRows == Insert(rows, r.body.name, r.body.location, type, TRUE)
           IN  /\ rows' = newRows
               /\ marks' = Append(marks,
                      Mark("created", <<Submitted(r.body.name, r.body.location, type)>>))
               /\ Finish(r, CreateResponse(rows, r.body), TRUE, newRows)
        /\ UNCHANGED variant

ExecuteList ==
    \E r \in BagToSet(inFlight) :
        /\ r.pc = "execute" /\ r.op = "list"
        /\ Finish(r, ListResponse(rows), TRUE, rows)
        /\ UNCHANGED <<variant, rows, marks>>

ExecuteGet ==
    \E r \in BagToSet(inFlight) :
        /\ r.pc = "execute" /\ r.op = "get"
        /\ Finish(r, GetResponse(rows, r.id), TRUE, rows)
        /\ UNCHANGED <<variant, rows, marks>>

ExecuteUpdate ==
    \E r \in BagToSet(inFlight) :
        /\ r.pc = "execute" /\ r.op = "update"
        /\ LET is_active == r.body.is_active.n = 1
               newRows == UpdateById(rows, r.id, r.body.name, r.body.location,
                                     TypeField(variant, r.body), is_active)
           IN  /\ rows' = newRows
               /\ marks' = [i \in 1..Len(marks) |->
                               IF i \in UpdateMatches(rows, r.id)
                               THEN MarkAfterUpdate(rows[i], is_active)
                               ELSE marks[i]]
               /\ Finish(r, UpdateResponse(rows, r.id), TRUE, newRows)
        /\ UNCHANGED variant

ExecuteDelete ==
    \E r \in BagToSet(inFlight) :
        /\ r.pc = "execute" /\ r.op = "delete"
        /\ LET newRows == SoftDelete(rows, r.id)
           IN  /\ rows' = newRows
               /\ marks' = [i \in 1..Len(marks) |->
                               IF i \in SoftDeleteMatches(rows, r.id)
                               THEN Mark("deleted", <<>>)
                               ELSE marks[i]]
               /\ Finish(r, DeleteResponse(rows, r.id), TRUE, newRows)
        /\ UNCHANGED variant

\* connection.execute() rejects: catch answers 500, then finally
ExecuteFail ==
    \E r \in BagToSet(inFlight) :
        /\ r.pc = "execute"
        /\ Finish(r, Response(500, Error("error interno", 0)), FALSE, rows)
        /\ UNCHANGED <<variant, rows, marks>>

\* second program: await connection.end() settles and the handler returns
End ==
    \E r \in BagToSet(inFlight) :
        /\ r.pc = "end"
        /\ checkedOut' = Release(r.conn, checkedOut)
        /\ inFlight' = Remove(inFlight, r)
        /\ last' = NoRequest
        /\ UNCHANGED <<variant, rows, marks, race>>

Next ==
    \/ ReceiveCreate
    \/ ReceiveList
    \/ ReceiveGet
    \/ ReceiveUpdate
    \/ ReceiveDelete
    \/ AcquireOk
    \/ AcquireFail
    \/ ExecuteCreate
    \/ ExecuteList
    \/ ExecuteGet
    \/ ExecuteUpdate
    \/ ExecuteDelete
    \/ ExecuteFail
    \/ End

Spec == Init /\ [][Next]_vars

-----------------------------------------------------------------------------
(* Concurrent soft deletes of one station: the service holds some stations, *)
(* no handler is in flight, and from then on the only requests are soft     *)
(* deletes of one of the active stations, at most MaxInFlight of them.      *)

\* the table after valid creates with bodies bs, in that order
RECURSIVE Created(_, _)
Created(v, bs) ==
    IF bs = <<>>
    THEN <<>>
    ELSE LET b == bs[Len(bs)]
         IN  Insert(Created(v, SubSeq(bs, 1, Len(bs) - 1)),
                    b.name, b.location, TypeField(v, b), TRUE)

\* ... and after soft deletes of the stations in gone
RECURSIVE Deleted(_, _)
Deleted(rs, gone) ==
    IF gone = {}
    THEN rs
    ELSE LET id == CHOOSE i \in gone : TRUE
         IN  SoftDelete(Deleted(rs, gone \ {id}), id)

MarksOf(v, bs, gone) ==
    [i \in 1..Len(bs) |->
        IF i \in gone
        THEN Mark("deleted", <<>>)
        ELSE Mark("created",
                  <<Submitted(bs[i].name, bs[i].location, TypeField(v, bs[i]))>>)]

CreateHistories(v) ==
    UNION {[1..n -> {b \in CreateBodies : ValidCreate(v, b)}] : n \in 1..MaxRows}

RaceInit ==
    /\ variant \in {1, 2}
    /\ \E bs \in CreateHistories(variant) :
       \E gone \in SUBSET (1..Len(bs)) :
       \E id \in (1..Len(bs)) \ gone :
          /\ rows = Deleted(Created(variant, bs), gone)
          /\ marks = MarksOf(variant, bs, gone)
          /\ race = Watch(Deleted(Created(variant, bs), gone), id)
    /\ inFlight = EmptyBag
    /\ checkedOut = 0
    /\ last = NoRequest

\* soft deletes of the watched station received so far
Started ==
    Len(race.done)
      + BagCardinality([r \in {x \in BagToSet(inFlight) : x.op = "delete"} |-> inFlight[r]])

\* app.delete('/api/stations/:id') for the watched station
ReceiveRacingDelete ==
    /\ race.on
    /\ Started < MaxInFlight
    /\ \E auth \in AuthChoices("delete") : Receive("delete", race.id, NoBody, auth)

RaceNext ==
    \/ ReceiveRacingDelete
    \/ AcquireOk
    \/ AcquireFail
    \/ ExecuteDelete
    \/ ExecuteFail
    \/ End

RaceSpec == RaceInit /\ [][RaceNext]_vars

-----------------------------------------------------------------------------
(* Properties *)

ActiveIds == {i \in 1..Len(rows) : rows[i].is_active}

StoredRow(id, name, location, type, is_active) ==
    [id |-> id, name |-> name, location |-> location, type |-> type,
     is_active |-> is_active]

\* C1: a 200 response of GET /api/stations holds exactly the stored rows with
\* is_active = true: every returned row is a stored active row and every
\* stored active row is returned.
C1_ListIsExactlyActive ==
    (last.op = "list" /\ last.status = 200) =>
        LET out == last.json.rows
        IN  /\ \A k \in 1..Len(out) :
                \E i \in 1..Len(rows) : rows[i] = out[k] /\ rows[i].is_active
            /\ \A i \in 1..Len(rows) :
                rows[i].is_active => \E k \in 1..Len(out) : out[k] = rows[i]

\* a list answered while the table holds an active and an inactive row
C1_Witness ==
    /\ last.op = "list" /\ last.status = 200
    /\ Len(last.json.rows) >= 1
    /\ \E i \in 1..Len(rows) : ~rows[i].is_active

\* C2: GET /api/stations/:id whose query ran answers 200 with the row exactly
\* when a row with that id and is_active = true is stored; otherwise it answers
\* 404 with a body that depends on the id alone, the same for an id that was
\* never created and for an id whose row is inactive.
C2_GetHidesInactive ==
    last.op = "get" =>
        /\ last.status = 200 =>
              /\ last.id \in ActiveIds
              /\ last.json.rows = <<rows[last.id]>>
        /\ (last.executed /\ last.id \in ActiveIds) => last.status = 200
        /\ (last.executed /\ last.id \notin ActiveIds) =>
              /\ last.status = 404
              /\ last.json = Error("no encontrada o inactiva", last.id)

\* a get-by-id answered 404 for a stored, inactive row
C2_Witness ==
    /\ last.op = "get" /\ last.status = 404
    /\ last.pre # <<>>
    /\ ~last.pre[1].is_active

\* C3: a create with valid fields is answered 201 unless storage fails (500);
\* the 201 carries an id no earlier row has and the row stored under it has the
\* submitted name, location and type and is_active = true; as long as no update
\* or soft delete has written that row, get-by-id answers 200 with exactly
\* those fields and the list holds the row.
C3_CreateRoundTrip ==
    /\ (last.op = "create" /\ Authorized(variant, "create", last.auth)
            /\ ValidCreate(variant, last.body)) =>
          /\ last.status \in {201, 500}
          /\ last.executed <=> last.status = 201
    /\ (last.op = "create" /\ last.status = 201) =>
          LET id == last.json.id
          IN  /\ id \in 1..Len(rows)
              /\ \A i \in 1..Len(rows) : i # id => rows[i].id # id
              /\ rows[id] = StoredRow(id, last.body.name, last.body.location,
                                      TypeField(variant, last.body), TRUE)
              /\ last.json.name = last.body.name
              /\ last.json.location = last.body.location
    /\ \A i \in 1..Len(rows) :
          marks[i].kind = "created" =>
              LET sub == marks[i].sub[1]
                  row == StoredRow(i, sub.name, sub.location, sub.type, TRUE)
              IN  /\ GetResponse(rows, i).status = 200
                  /\ GetResponse(rows, i).json.rows = <<row>>
                  /\ \E k \in 1..Len(ListResponse(rows).json.rows) :
                        ListResponse(rows).json.rows[k] = row
    /\ (last.op = "get" /\ last.executed /\ last.premark = "created") =>
          LET sub == marks[last.id].sub[1]
          IN  /\ last.status = 200
              /\ last.json.rows =
                    <<StoredRow(last.id, sub.name, sub.location, sub.type, TRUE)>>

\* a second station was created with another name and then read back
C3_Witness ==
    /\ last.op = "get" /\ last.status = 200 /\ last.premark = "created"
    /\ last.id = 2
    /\ marks[1].kind = "created"
    /\ rows[1].name # rows[2].name

\* C4: a soft delete whose statement ran on an active row answers 200 and
\* leaves the row inactive; one whose statement ran on a row last written by a
\* successful soft delete (no update in between) answers 404 and changes no
\* stored row.
C4_SecondDeleteNotFound ==
    (last.op = "delete" /\ last.executed) =>
        /\ (last.pre # <<>> /\ last.pre[1].is_active) =>
              /\ last.status = 200
              /\ ~rows[last.id].is_active
              /\ marks[last.id].kind = "deleted"
        /\ last.premark = "deleted" =>
              /\ last.status = 404
              /\ ~last.changed
              /\ ~rows[last.id].is_active

\* the second of two soft deletes of a station
C4_Witness ==
    /\ last.op = "delete" /\ last.status = 404
    /\ last.premark = "deleted"

-----------------------------------------------------------------------------
\* the type a create or update body carries is one of the recognized codes:
\* a member of VALID_TYPE_IDS for the first program, one of the names the
\* second program lists in its TODO for the second
Recognized(v, type) ==
    IF v = 1
    THEN Includes(VALID_TYPE_IDS, type)
    ELSE type.t = "string" /\ type.s \in RecognizedTypeNames

WellFormedCreate(v, body) ==
    /\ Truthy(body.name)
    /\ Truthy(body.location)
    /\ Truthy(TypeField(v, body))
    /\ Recognized(v, TypeField(v, body))

\* C5: a create whose type is not a recognized code, or that lacks name,
\* location or type, is answered 400 and never reaches storage: it never
\* waits for or holds a connection, no statement runs for it and the stored
\* rows stay as they were.
C5_InvalidCreateRejected ==
    /\ \A r \in BagToSet(inFlight) :
          r.op = "create" => WellFormedCreate(variant, r.body)
    /\ (last.op = "create" /\ Authorized(variant, "create", last.auth)
            /\ ~WellFormedCreate(variant, last.body)) =>
          /\ last.status = 400
          /\ ~last.executed
          /\ ~last.changed

\* C6: the type stored in every row is one of the recognized codes.
C6_StoredTypeRecognized ==
    \A i \in 1..Len(rows) : Recognized(variant, rows[i].type)

\* C7: an update with a valid body whose statement ran and whose id matches no
\* stored row answers 404 and leaves the table as it was (no row added, none
\* modified).
C7_UpdateMissingNotFound ==
    (last.op = "update" /\ last.executed /\ last.pre = <<>>) =>
        /\ last.status = 404
        /\ ~last.changed
        /\ last.id \notin 1..Len(rows)

\* an update of an id that is not stored, while another row is
C7_Witness ==
    /\ last.op = "update" /\ last.status = 404
    /\ last.pre = <<>>
    /\ Len(rows) >= 1

\* C8: a create, update, soft delete or list that carries no authorization is
\* answered 401 before any repository call (it never waits for or holds a
\* connection, no statement runs for it, storage is unchanged); get-by-id is
\* served without authorization.
C8_AdminRoutesRequireAuthorization ==
    /\ \A r \in BagToSet(inFlight) : r.op \in AdminOps => r.auth
    /\ (last.op \in AdminOps /\ ~last.auth) =>
          /\ last.status = 401
          /\ ~last.executed
          /\ ~last.changed
    /\ (last.op = "get" /\ ~last.auth) => last.status # 401

\* C9: the connections checked out are exactly those held by handlers still
\* in flight, one each: a handler holds one from the moment its acquisition
\* resolved until its finally block, on every exit path, and none if the
\* acquisition failed; with no handler in flight none is checked out.
C9_ConnectionsReleased ==
    /\ checkedOut = Holders(inFlight)
    /\ \A r \in BagToSet(inFlight) : r.conn <=> r.pc \in {"execute", "end"}
    /\ inFlight = EmptyBag => checkedOut = 0

\* the first program has just answered 404 from inside its try block and no
\* handler is left
C9_Witness ==
    /\ variant = 1
    /\ last.status = 404 /\ last.executed
    /\ inFlight = EmptyBag
    /\ checkedOut = 0

\* C10: an update with a valid body whose statement ran on a stored row answers
\* 200 and overwrites name, location, type and is_active with the submitted
\* values whether the row was active or not; a row made active again this way
\* is answered 200 by get-by-id and listed, and the next soft delete on it
\* answers 200.
C10_UpdateRevives ==
    /\ (last.op = "update" /\ last.executed /\ last.pre # <<>>) =>
          /\ last.status = 200
          /\ rows[last.id] =
                StoredRow(last.id, last.body.name, last.body.location,
                          TypeField(variant, last.body), last.body.is_active.n = 1)
    /\ \A i \in 1..Len(rows) :
          marks[i].kind = "revived" =>
              /\ rows[i].is_active
              /\ GetResponse(rows, i) =
                    Response(200, Json("", 0, <<rows[i]>>, Undefined, Undefined))
              /\ \E k \in 1..Len(ListResponse(rows).json.rows) :
                    ListResponse(rows).json.rows[k] = rows[i]
    /\ (last.op \in {"get", "delete"} /\ last.executed /\ last.premark = "revived") =>
          last.status = 200

\* a station was soft-deleted, updated with is_active = true and soft-deleted
\* again
C10_Witness ==
    /\ last.op = "delete" /\ last.status = 200
    /\ last.premark = "revived"

-----------------------------------------------------------------------------
\* answers with status st among the answers noted for the watched station
Count(done, st) == Cardinality({k \in 1..Len(done) : done[k].status = st})

\* C11: of the soft deletes of one active station that run concurrently, with
\* no other request on that id, at most one is answered 200 in any
\* interleaving; as soon as the statement of one of them has run exactly one
\* is answered 200 and the row is inactive, every other one whose statement
\* ran is answered 404 (one that was refused or whose connection or query
\* failed is answered 401 or 500 and changes nothing), and the row keeps its
\* id, name, location and type throughout.
C11_OneDeleteWins ==
    race.on =>
        LET done == race.done
            ran  == {k \in 1..Len(done) : done[k].executed}
            row  == rows[race.id]
            was  == race.before[1]
        IN  /\ Count(done, 200) <= 1
            /\ ran # {} => Count(done, 200) = 1
            /\ \A k \in ran : done[k].status \in {200, 404}
            /\ \A k \in 1..Len(done) :
                  ~done[k].executed => done[k].status \in {401, 500}
            /\ row.is_active <=> ran = {}
            /\ row.id = was.id /\ row.name = was.name
            /\ row.location = was.location /\ row.type = was.type

\* two soft deletes of the station were in flight together, both statements
\* ran and both are answered
C11_Witness ==
    /\ race.on
    /\ Len(race.done) >= 2
    /\ \A k \in 1..Len(race.done) : race.done[k].executed
    /\ Count(race.done, 200) = 1
    /\ Count(race.done, 404) = Len(race.done) - 1
    /\ \A r \in BagToSet(inFlight) : r.op # "delete"

====
